---- MODULE Spec2Model ----
(***************************************************************************)
(* Page-replacement MMU simulator core: the Clock (second chance), LRU and *)
(* Random engines of src/clockmmu.py, src/PythonP2/lrummu.py and           *)
(* src/randmmu.py.  An engine object is a record of the fields its class   *)
(* sets in __init__, under the source's names without the leading          *)
(* underscore, plus two fields that stand for what a call hands back to    *)
(* its caller besides the object itself:                                   *)
(*   out : the lines the call printed on stdout (debug output)             *)
(*   exc : the Python exception that escaped the call, "none" on a normal  *)
(*         return                                                          *)
(* and, for the Clock engine, sweep : the frames the hand inspected during *)
(* the last read or write, in order, each with the reference bit found.    *)
(* Python lists are functions on 0..len-1, dicts are functions on their    *)
(* key set, None is the empty tuple and a present value x is <<x>>.        *)
(***************************************************************************)
EXTENDS Integers, Sequences, FiniteSets

\* ---------------------------------------------------------------- bounds
\* largest frame count the driver constructs an engine with
MaxFrames == 2
\* pages are 1..MaxPage
MaxPage == 3
\* the driver stops feeding events once page_faults reaches MaxFaults
MaxFaults == 4
\* LRU only: the driver stops once the logical clock reaches MaxTime
MaxTime == 6
\* a recorded run is at most MaxTrace reads and writes long
MaxTrace == 4

Pages == 1..MaxPage
\* frame counts handed to the constructors: valid ones, zero and a negative one
Capacities == (0 - 1)..MaxFrames

\* ------------------------------------------------------- Python values
None == <<>>
Some(x) == <<x>>

\* [v] * n
ListOf(v, n) == [i \in 0..(n - 1) |-> v]
\* list(range(n)) turned round: n-1, ..., 0
RangeList_descending(n) == [i \in 1..(IF n > 0 THEN n ELSE 0) |-> n - i]
\* list(range(n))
RangeList(n) == [i \in 1..(IF n > 0 THEN n ELSE 0) |-> i - 1]
\* len(lst) of a list kept as a function on 0..len-1
PyLen(lst) == Cardinality(DOMAIN lst)
\* lst[i] is legal for -len <= i < len, IndexError otherwise
IndexOK(lst, i) == (0 - PyLen(lst)) <= i /\ i < PyLen(lst)
\* the position lst[i] denotes (negative indices count from the end)
Pos(lst, i) == IF i < 0 THEN i + PyLen(lst) ELSE i
\* d.get(k)
DictGet(d, k) == IF k \in DOMAIN d THEN Some(d[k]) ELSE None
\* d[k] = v
DictSet(d, k, v) == [x \in (DOMAIN d) \cup {k} |-> IF x = k THEN v ELSE d[x]]
\* DictDel with the deletion forgotten: the evicted page stays in the mapping
DictDel_forgotten(d, k) == d
\* del d[k]
DictDel(d, k) == [x \in (DOMAIN d) \ {k} |-> d[x]]
\* a % b with Python's sign rule (the result has the sign of b), b # 0
PyMod(a, b) == IF b > 0 THEN a % b ELSE 0 - ((0 - a) % (0 - b))

\* raise e out of the running call
Raise(self, e) == [self EXCEPT !.exc = e]
\* print(line)
Emit(self, line) == [self EXCEPT !.out = Append(@, line)]
\* entry to a public method: nothing printed yet, nothing raised
Enter(self) == [self EXCEPT !.out = <<>>, !.exc = "none"]

\* ------------------------------------------------------------ ClockMMU
\* ClockMMU with the hand starting on frame 1
ClockMMU_hand_at_one(frames) ==
    [ frames_capacity |-> frames,
      page_faults     |-> 0,
      disk_reads      |-> 0,
      disk_writes     |-> 0,
      frame_page      |-> ListOf(None, frames),
      dirty           |-> ListOf(FALSE, frames),
      ref             |-> ListOf(0, frames),
      page_to_frame   |-> <<>>,
      hand            |-> 1,
      debug           |-> FALSE,
      out             |-> <<>>,
      exc             |-> "none",
      sweep           |-> <<>> ]

\* src/clockmmu.py; src/PythonP2/clockmmu.py is the same class statement for
\* statement, except that its debug lines spell the write access "writting".
ClockMMU(frames) ==
    [ frames_capacity |-> frames,
      page_faults     |-> 0,
      disk_reads      |-> 0,
      disk_writes     |-> 0,
      frame_page      |-> ListOf(None, frames),
      dirty           |-> ListOf(FALSE, frames),
      ref             |-> ListOf(0, frames),
      page_to_frame   |-> <<>>,
      hand            |-> 0,
      debug           |-> FALSE,
      out             |-> <<>>,
      exc             |-> "none",
      sweep           |-> <<>> ]

\* the word printed for the access itself
AccessWord(is_write) == IF is_write THEN "writing" ELSE "reading"

\* _find_free_frame returning the highest free index
Clock_find_free_frame_highest(self) ==
    LET free == {i \in 0..(self.frames_capacity - 1) : self.frame_page[i] = None}
    IN  IF free = {} THEN None
        ELSE Some(CHOOSE i \in free : \A j \in free : i >= j)

\* _find_free_frame: lowest index i with frame_page[i] is None, else None
Clock_find_free_frame(self) ==
    LET free == {i \in 0..(self.frames_capacity - 1) : self.frame_page[i] = None}
    IN  IF free = {} THEN None
        ELSE Some(CHOOSE i \in free : \A j \in free : i <= j)

\* _install
Clock_install(self, frame_idx, page, is_write) ==
    IF ~IndexOK(self.frame_page, frame_idx) THEN Raise(self, "IndexError")
    ELSE LET k == Pos(self.frame_page, frame_idx)
         IN  [self EXCEPT !.frame_page[k] = Some(page),
                          !.page_to_frame = DictSet(@, page, frame_idx),
                          !.dirty[k] = is_write,
                          !.ref[k] = 1]

\* _advance_hand without the wrap-around
Clock_advance_hand_nowrap(self) ==
    IF self.frames_capacity = 0 THEN Raise(self, "ZeroDivisionError")
    ELSE [self EXCEPT !.hand = self.hand + 1]

\* _advance_hand
Clock_advance_hand(self) ==
    IF self.frames_capacity = 0 THEN Raise(self, "ZeroDivisionError")
    ELSE [self EXCEPT !.hand = PyMod(self.hand + 1, self.frames_capacity)]

\* the loop body of _evict_clock reaches the frame under the hand: one
\* inspection, noted in sweep with the reference bit it finds
Clock_inspect(self, h) ==
    [self EXCEPT !.sweep = Append(@, [frame    |-> self.hand,
                                      occupied |-> self.frame_page[h] # None,
                                      ref      |-> self.ref[h]])]

\* Clock_ref_clear that takes whatever frame is under the hand (plain FIFO)
Clock_ref_clear_ignored(self, h) == TRUE

\* the test "self.ref[self.hand] == 0" of _evict_clock
Clock_ref_clear(self, h) == self.ref[h] = 0

\* Clock_evict_frame that leaves the hand on the victim
Clock_evict_frame_hand_stays(self, h) ==
    LET victim_frame == self.hand
        victim_page  == self.frame_page[h][1]
        s1 == IF self.dirty[h]
              THEN LET w == [self EXCEPT !.disk_writes = @ + 1]
                   IN  IF w.debug THEN Emit(w, <<"Disk write", victim_page>>) ELSE w
              ELSE IF self.debug THEN Emit(self, <<"Discard", victim_page>>) ELSE self
    IN  IF victim_page \notin DOMAIN s1.page_to_frame
        THEN [self |-> Raise(s1, "KeyError"), ret |-> None]
        ELSE [self |-> [s1 EXCEPT !.page_to_frame = DictDel(@, victim_page),
                                  !.frame_page[h] = None,
                                  !.dirty[h] = FALSE],
              ret  |-> Some(victim_frame)]

\* the victim branch of _evict_clock: evict the frame under the hand, write it
\* back if dirty, advance the hand.  Returns [self, ret], ret the victim frame.
Clock_evict_frame(self, h) ==
    LET victim_frame == self.hand
        victim_page  == self.frame_page[h][1]
        s1 == IF self.dirty[h]
              THEN LET w == [self EXCEPT !.disk_writes = @ + 1]
                   IN  IF w.debug THEN Emit(w, <<"Disk write", victim_page>>) ELSE w
              ELSE IF self.debug THEN Emit(self, <<"Discard", victim_page>>) ELSE self
    IN  IF victim_page \notin DOMAIN s1.page_to_frame
        THEN [self |-> Raise(s1, "KeyError"), ret |-> None]
        ELSE LET s2 == [s1 EXCEPT !.page_to_frame = DictDel(@, victim_page),
                                  !.frame_page[h] = None,
                                  !.dirty[h] = FALSE]
             IN  [self |-> Clock_advance_hand(s2), ret |-> Some(victim_frame)]

\* Clock_second_chance that first spends the chance on the dirty bit: a dirty
\* frame is marked clean and keeps its reference bit for one more round
Clock_second_chance_dirty_first(self, h) ==
    IF self.dirty[h] THEN [self EXCEPT !.dirty[h] = FALSE]
    ELSE [self EXCEPT !.ref[h] = 0]

\* the second-chance branch of _evict_clock: clear the reference bit
Clock_second_chance(self, h) == [self EXCEPT !.ref[h] = 0]

\* _evict_clock: the sweep.  Returns [self, ret] with ret the victim frame.
RECURSIVE Clock_evict_clock(_)
Clock_evict_clock(self) ==
    IF ~IndexOK(self.frame_page, self.hand)
    THEN [self |-> Raise(self, "IndexError"), ret |-> None]
    ELSE
    LET h  == Pos(self.frame_page, self.hand)
        s0 == Clock_inspect(self, h)
    IN
    IF s0.frame_page[h] # None
    THEN IF Clock_ref_clear(s0, h)
         THEN Clock_evict_frame(s0, h)
         ELSE LET s1 == Clock_advance_hand(Clock_second_chance(s0, h))
              IN  IF s1.exc # "none" THEN [self |-> s1, ret |-> None]
                  ELSE Clock_evict_clock(s1)
    ELSE LET s1 == Clock_advance_hand(s0)
         IN  IF s1.exc # "none" THEN [self |-> s1, ret |-> None]
             ELSE Clock_evict_clock(s1)

\* the closing debug line of _access
Clock_print_access(self, page, is_write) ==
    IF self.exc = "none" /\ self.debug
    THEN Emit(self, <<AccessWord(is_write), page>>)
    ELSE self

\* Clock_hit with the ref update moved under "if self.debug"
Clock_hit_ref_under_debug(self, frame, page, is_write) ==
    IF ~IndexOK(self.dirty, frame) THEN Raise(self, "IndexError")
    ELSE LET k  == Pos(self.dirty, frame)
             s1 == IF is_write THEN [self EXCEPT !.dirty[k] = TRUE] ELSE self
             s2 == IF s1.debug THEN [s1 EXCEPT !.ref[k] = 1] ELSE s1
         IN  Clock_print_access(s2, page, is_write)

\* the hit branch of _access ("fast path"), frame the index the mapping gave
Clock_hit(self, frame, page, is_write) ==
    IF ~IndexOK(self.dirty, frame) THEN Raise(self, "IndexError")
    ELSE LET k  == Pos(self.dirty, frame)
             s1 == IF is_write THEN [self EXCEPT !.dirty[k] = TRUE] ELSE self
             s2 == [s1 EXCEPT !.ref[k] = 1]
         IN  Clock_print_access(s2, page, is_write)

\* _access
Clock_access(self, page, is_write) ==
    LET frame == DictGet(self.page_to_frame, page) IN
    IF frame # None THEN Clock_hit(self, frame[1], page, is_write)
    ELSE LET s1 == [self EXCEPT !.page_faults = @ + 1, !.disk_reads = @ + 1]
             s2 == IF s1.debug THEN Emit(s1, <<"Page fault", page>>) ELSE s1
             free_idx == Clock_find_free_frame(s2)
         IN  IF free_idx # None
             THEN Clock_print_access(Clock_install(s2, free_idx[1], page, is_write),
                                     page, is_write)
             ELSE LET r == Clock_evict_clock(s2)
                  IN  IF r.self.exc # "none" THEN r.self
                      ELSE Clock_print_access(
                               Clock_install(r.self, r.ret[1], page, is_write),
                               page, is_write)

\* entry to read_memory / write_memory: no frame inspected yet by this call
Clock_enter(self) == [Enter(self) EXCEPT !.sweep = <<>>]

Clock_read_memory(self, page_number) == Clock_access(Clock_enter(self), page_number, FALSE)
Clock_write_memory(self, page_number) == Clock_access(Clock_enter(self), page_number, TRUE)
Clock_set_debug(self) == [Enter(self) EXCEPT !.debug = TRUE]
Clock_reset_debug(self) == [Enter(self) EXCEPT !.debug = FALSE]

\* -------------------------------------------------------------- LruMMU
LruMMU(frames) ==
    [ frames       |-> frames,
      page_table   |-> <<>>,
      frame_table  |-> ListOf(None, frames),
      dirty_bits   |-> ListOf(FALSE, frames),
      access_time  |-> ListOf(0, frames),
      free_frames  |-> RangeList(frames),
      current_time |-> 0,
      disk_reads   |-> 0,
      disk_writes  |-> 0,
      page_faults  |-> 0,
      debug        |-> FALSE,
      out          |-> <<>>,
      exc          |-> "none" ]

\* Lru_scan with the comparison turned round: keeps the newest stamp
RECURSIVE Lru_scan_newest(_, _, _, _)
Lru_scan_newest(self, frame_index, oldest_time, lru_frame_index) ==
    IF frame_index >= self.frames THEN lru_frame_index
    ELSE IF /\ self.frame_table[frame_index] # None
            /\ \/ oldest_time = None
               \/ self.access_time[frame_index] > oldest_time[1]
         THEN Lru_scan_newest(self, frame_index + 1,
                              Some(self.access_time[frame_index]), frame_index)
         ELSE Lru_scan_newest(self, frame_index + 1, oldest_time, lru_frame_index)

\* the loop of _find_lru_victim from frame_index on; oldest_time None is float('inf')
RECURSIVE Lru_scan(_, _, _, _)
Lru_scan(self, frame_index, oldest_time, lru_frame_index) ==
    IF frame_index >= self.frames THEN lru_frame_index
    ELSE IF /\ self.frame_table[frame_index] # None
            /\ \/ oldest_time = None
               \/ self.access_time[frame_index] < oldest_time[1]
         THEN Lru_scan(self, frame_index + 1,
                       Some(self.access_time[frame_index]), frame_index)
         ELSE Lru_scan(self, frame_index + 1, oldest_time, lru_frame_index)

\* _find_lru_victim
Lru_find_lru_victim(self) == Lru_scan(self, 0, None, 0)

\* Lru_evict counting a disk write for every victim, dirty or clean
Lru_evict_always_writes(self) ==
    LET frame_index == Lru_find_lru_victim(self) IN
    IF ~IndexOK(self.frame_table, frame_index)
    THEN [self |-> Raise(self, "IndexError"), ret |-> None]
    ELSE
    LET k        == Pos(self.frame_table, frame_index)
        old_page == self.frame_table[k]
        s2       == [self EXCEPT !.disk_writes = @ + 1]
    IN  IF old_page = None \/ old_page[1] \notin DOMAIN s2.page_table
        THEN [self |-> Raise(s2, "KeyError"), ret |-> None]
        ELSE [self |-> [s2 EXCEPT !.page_table = DictDel(@, old_page[1])],
              ret  |-> Some(frame_index)]

\* the else branch of _handle_page_fault: memory full, evict the LRU page.
\* Returns [self, ret] with ret the frame to reuse.
Lru_evict(self) ==
    LET frame_index == Lru_find_lru_victim(self) IN
    IF ~IndexOK(self.frame_table, frame_index)
    THEN [self |-> Raise(self, "IndexError"), ret |-> None]
    ELSE
    LET k        == Pos(self.frame_table, frame_index)
        old_page == self.frame_table[k]
        s1 == IF self.debug
              THEN Emit(self, <<"Memory full - evicting LRU page", old_page, frame_index>>)
              ELSE self
        s2 == IF s1.dirty_bits[k]
              THEN LET w == [s1 EXCEPT !.disk_writes = @ + 1]
                   IN  IF w.debug THEN Emit(w, <<"Evicted page was dirty", old_page>>)
                       ELSE w
              ELSE s1
    IN  IF old_page = None \/ old_page[1] \notin DOMAIN s2.page_table
        THEN [self |-> Raise(s2, "KeyError"), ret |-> None]
        ELSE [self |-> [s2 EXCEPT !.page_table = DictDel(@, old_page[1])],
              ret  |-> Some(frame_index)]

\* Lru_install that does not stamp the frame with the current time
Lru_install_keeps_stamp(self, frame_index, page_number, is_write) ==
    IF ~IndexOK(self.frame_table, frame_index) THEN Raise(self, "IndexError")
    ELSE LET k  == Pos(self.frame_table, frame_index)
             s1 == [self EXCEPT !.frame_table[k] = Some(page_number),
                                !.page_table = DictSet(@, page_number, frame_index),
                                !.dirty_bits[k] = is_write]
         IN  IF s1.debug THEN Emit(s1, <<"Loaded page", page_number, frame_index>>)
             ELSE s1

\* Lru_install leaving a set dirty bit of the frame's previous occupant in place
Lru_install_keeps_dirty(self, frame_index, page_number, is_write) ==
    IF ~IndexOK(self.frame_table, frame_index) THEN Raise(self, "IndexError")
    ELSE LET k  == Pos(self.frame_table, frame_index)
             s1 == [self EXCEPT !.frame_table[k] = Some(page_number),
                                !.page_table = DictSet(@, page_number, frame_index),
                                !.dirty_bits[k] = @ \/ is_write,
                                !.access_time[k] = self.current_time]
         IN  IF s1.debug THEN Emit(s1, <<"Loaded page", page_number, frame_index>>)
             ELSE s1

\* the tail of _handle_page_fault: install the new page in the selected frame
Lru_install(self, frame_index, page_number, is_write) ==
    IF ~IndexOK(self.frame_table, frame_index) THEN Raise(self, "IndexError")
    ELSE LET k  == Pos(self.frame_table, frame_index)
             s1 == [self EXCEPT !.frame_table[k] = Some(page_number),
                                !.page_table = DictSet(@, page_number, frame_index),
                                !.dirty_bits[k] = is_write,
                                !.access_time[k] = self.current_time]
         IN  IF s1.debug THEN Emit(s1, <<"Loaded page", page_number, frame_index>>)
             ELSE s1

\* _handle_page_fault
Lru_handle_page_fault(self, page_number, is_write) ==
    LET s1 == [self EXCEPT !.page_faults = @ + 1,
                           !.disk_reads = @ + 1,
                           !.current_time = @ + 1]
        s2 == IF s1.debug THEN Emit(s1, <<"Page fault: need to load page", page_number>>)
              ELSE s1
    IN  IF Len(s2.free_frames) > 0
        THEN LET frame_index == Head(s2.free_frames)
                 s3 == [s2 EXCEPT !.free_frames = Tail(@)]
                 s4 == IF s3.debug THEN Emit(s3, <<"Using free frame", frame_index>>)
                       ELSE s3
             IN  Lru_install(s4, frame_index, page_number, is_write)
        ELSE LET r == Lru_evict(s2)
             IN  IF r.self.exc # "none" THEN r.self
                 ELSE Lru_install(r.self, r.ret[1], page_number, is_write)

\* read_memory whose hit branch leaves the frame's stamp alone (first in,
\* first out among pages that are only read)
Lru_read_memory_hit_no_stamp(self, page_number) ==
    LET s1 == [Enter(self) EXCEPT !.current_time = @ + 1] IN
    IF page_number \in DOMAIN s1.page_table
    THEN LET frame_index == s1.page_table[page_number] IN
         IF ~IndexOK(s1.access_time, frame_index) THEN Raise(s1, "IndexError")
         ELSE IF s1.debug
              THEN Emit(s1, <<"Page hit: reading page", page_number, frame_index>>)
              ELSE s1
    ELSE Lru_handle_page_fault(s1, page_number, FALSE)

\* read_memory that does not advance the clock itself
Lru_read_memory_no_tick(self, page_number) ==
    LET s1 == Enter(self) IN
    IF page_number \in DOMAIN s1.page_table
    THEN LET frame_index == s1.page_table[page_number] IN
         IF ~IndexOK(s1.access_time, frame_index) THEN Raise(s1, "IndexError")
         ELSE LET s2 == [s1 EXCEPT !.access_time[Pos(s1.access_time, frame_index)] =
                                       s1.current_time]
              IN  IF s2.debug
                  THEN Emit(s2, <<"Page hit: reading page", page_number, frame_index>>)
                  ELSE s2
    ELSE Lru_handle_page_fault(s1, page_number, FALSE)

\* read_memory
Lru_read_memory(self, page_number) ==
    LET s1 == [Enter(self) EXCEPT !.current_time = @ + 1] IN
    IF page_number \in DOMAIN s1.page_table
    THEN LET frame_index == s1.page_table[page_number] IN
         IF ~IndexOK(s1.access_time, frame_index) THEN Raise(s1, "IndexError")
         ELSE LET s2 == [s1 EXCEPT !.access_time[Pos(s1.access_time, frame_index)] =
                                       s1.current_time]
              IN  IF s2.debug
                  THEN Emit(s2, <<"Page hit: reading page", page_number, frame_index>>)
                  ELSE s2
    ELSE Lru_handle_page_fault(s1, page_number, FALSE)

\* write_memory whose hit branch does not mark the frame dirty
Lru_write_memory_hit_clean(self, page_number) ==
    LET s1 == [Enter(self) EXCEPT !.current_time = @ + 1] IN
    IF page_number \in DOMAIN s1.page_table
    THEN LET frame_index == s1.page_table[page_number] IN
         IF ~IndexOK(s1.dirty_bits, frame_index) THEN Raise(s1, "IndexError")
         ELSE LET k  == Pos(s1.dirty_bits, frame_index)
                  s2 == [s1 EXCEPT !.access_time[k] = s1.current_time]
              IN  IF s2.debug
                  THEN Emit(s2, <<"Page hit: writing to page", page_number, frame_index>>)
                  ELSE s2
    ELSE Lru_handle_page_fault(s1, page_number, TRUE)

\* write_memory
Lru_write_memory(self, page_number) ==
    LET s1 == [Enter(self) EXCEPT !.current_time = @ + 1] IN
    IF page_number \in DOMAIN s1.page_table
    THEN LET frame_index == s1.page_table[page_number] IN
         IF ~IndexOK(s1.dirty_bits, frame_index) THEN Raise(s1, "IndexError")
         ELSE LET k  == Pos(s1.dirty_bits, frame_index)
                  s2 == [s1 EXCEPT !.dirty_bits[k] = TRUE,
                                   !.access_time[k] = s1.current_time]
              IN  IF s2.debug
                  THEN Emit(s2, <<"Page hit: writing to page", page_number, frame_index>>)
                  ELSE s2
    ELSE Lru_handle_page_fault(s1, page_number, TRUE)

Lru_set_debug(self) == [Enter(self) EXCEPT !.debug = TRUE]
Lru_reset_debug(self) == [Enter(self) EXCEPT !.debug = FALSE]

\* ------------------------------------------------------------- RandMMU
\* a frame entry is None or Some of the dict {"page": .., "dirty": ..}
RandMMU(frames) ==
    [ num_frames    |-> frames,
      frames        |-> ListOf(None, frames),
      page_to_frame |-> <<>>,
      disk_reads    |-> 0,
      disk_writes   |-> 0,
      page_faults   |-> 0,
      debug         |-> FALSE,
      free          |-> RangeList(frames),
      out           |-> <<>>,
      exc           |-> "none" ]

\* the values random.randrange can leave the loop of _choose_victim with: the
\* indices of occupied frames (a draw of an empty frame is drawn again)
Rand_draws(self) == {i \in 0..(self.num_frames - 1) : self.frames[i] # None}

\* _choose_victim drawing from 1..num_frames instead of 0..num_frames-1
Rand_choose_victim_off_by_one(self, draw) ==
    IF self.num_frames <= 1 THEN [self |-> self, ret |-> Some(0)]
    ELSE IF Rand_draws(self) = {} THEN [self |-> Raise(self, "NoReturn"), ret |-> None]
    ELSE [self |-> self, ret |-> Some(draw + 1)]

\* _choose_victim; draw is the value the loop ends on.  With two or more frames
\* and none occupied the loop never ends: no value is returned ("NoReturn").
Rand_choose_victim(self, draw) ==
    IF self.num_frames <= 1 THEN [self |-> self, ret |-> Some(0)]
    ELSE IF Rand_draws(self) = {} THEN [self |-> Raise(self, "NoReturn"), ret |-> None]
    ELSE [self |-> self, ret |-> Some(draw)]

\* _evict leaving the victim's page in page_to_frame
Rand_evict_keeps_mapping(self, idx) ==
    IF ~IndexOK(self.frames, idx) THEN Raise(self, "IndexError")
    ELSE
    LET k     == Pos(self.frames, idx)
        entry == self.frames[k]
    IN  IF entry = None THEN self
        ELSE LET s1 == IF entry[1].dirty THEN [self EXCEPT !.disk_writes = @ + 1]
                       ELSE self
             IN  [s1 EXCEPT !.frames[k] = None]

\* _evict
Rand_evict(self, idx) ==
    IF ~IndexOK(self.frames, idx) THEN Raise(self, "IndexError")
    ELSE
    LET k     == Pos(self.frames, idx)
        entry == self.frames[k]
    IN  IF entry = None THEN self
        ELSE LET s1 == IF entry[1].dirty THEN [self EXCEPT !.disk_writes = @ + 1]
                       ELSE self
                 old_page == entry[1].page
                 s2 == IF old_page \in DOMAIN s1.page_to_frame
                       THEN [s1 EXCEPT !.page_to_frame = DictDel(@, old_page)]
                       ELSE s1
             IN  [s2 EXCEPT !.frames[k] = None]

\* Rand_install that does not count the disk read
Rand_install_uncounted(self, idx, page, is_write) ==
    IF ~IndexOK(self.frames, idx) THEN Raise(self, "IndexError")
    ELSE LET k == Pos(self.frames, idx)
         IN  [self EXCEPT !.frames[k] = Some([page |-> page, dirty |-> is_write]),
                          !.page_to_frame = DictSet(@, page, idx)]

\* the tail of _access: count the disk read and install the page in frame idx
Rand_install(self, idx, page, is_write) ==
    LET s1 == [self EXCEPT !.disk_reads = @ + 1] IN
    IF ~IndexOK(s1.frames, idx) THEN Raise(s1, "IndexError")
    ELSE LET k  == Pos(s1.frames, idx)
             s2 == [s1 EXCEPT !.frames[k] = Some([page |-> page, dirty |-> is_write]),
                              !.page_to_frame = DictSet(@, page, idx)]
         IN  IF is_write /\ s2.frames[k] # None
             THEN [s2 EXCEPT !.frames[k] = Some([@[1] EXCEPT !.dirty = TRUE])]
             ELSE s2

\* Rand_hit whose read branch resets the dirty flag to the default False
Rand_hit_read_cleans(self, idx, is_write) ==
    IF ~IndexOK(self.frames, idx) THEN Raise(self, "IndexError")
    ELSE LET k     == Pos(self.frames, idx)
             entry == self.frames[k]
         IN  IF entry # None
             THEN [self EXCEPT !.frames[k] = Some([entry[1] EXCEPT !.dirty = is_write])]
             ELSE self

\* the hit branch of _access on frame idx
Rand_hit(self, idx, is_write) ==
    IF ~IndexOK(self.frames, idx) THEN Raise(self, "IndexError")
    ELSE LET k     == Pos(self.frames, idx)
             entry == self.frames[k]
         IN  IF entry # None
             THEN IF is_write
                  THEN [self EXCEPT !.frames[k] = Some([entry[1] EXCEPT !.dirty = TRUE])]
                  ELSE [self EXCEPT !.frames[k] =
                                        Some([entry[1] EXCEPT !.dirty = entry[1].dirty])]
             ELSE self

\* _access that counts the page fault before it looks the page up
Rand_access_counts_every_access(self, page, is_write, draw) ==
    LET idx == DictGet(self.page_to_frame, page)
        s1  == [self EXCEPT !.page_faults = @ + 1]
    IN
    IF idx # None THEN Rand_hit(s1, idx[1], is_write)
    ELSE IF Len(s1.free) > 0
         THEN Rand_install([s1 EXCEPT !.free = Tail(@)], Head(s1.free), page, is_write)
         ELSE LET c == Rand_choose_victim(s1, draw) IN
              IF c.self.exc # "none" THEN c.self
              ELSE LET s2 == Rand_evict(c.self, c.ret[1]) IN
                   IF s2.exc # "none" THEN s2
                   ELSE Rand_install(s2, c.ret[1], page, is_write)

\* _access; draw is the outcome of the random draw, used only if a victim is chosen
Rand_access(self, page, is_write, draw) ==
    LET idx == DictGet(self.page_to_frame, page) IN
    IF idx # None THEN Rand_hit(self, idx[1], is_write)
    ELSE LET s1 == [self EXCEPT !.page_faults = @ + 1] IN
         IF Len(s1.free) > 0
         THEN Rand_install([s1 EXCEPT !.free = Tail(@)], Head(s1.free), page, is_write)
         ELSE LET c == Rand_choose_victim(s1, draw) IN
              IF c.self.exc # "none" THEN c.self
              ELSE LET s2 == Rand_evict(c.self, c.ret[1]) IN
                   IF s2.exc # "none" THEN s2
                   ELSE Rand_install(s2, c.ret[1], page, is_write)

Rand_read_memory(self, page_number, draw) == Rand_access(Enter(self), page_number, FALSE, draw)
Rand_write_memory(self, page_number, draw) == Rand_access(Enter(self), page_number, TRUE, draw)
Rand_set_debug(self) == [Enter(self) EXCEPT !.debug = TRUE]
Rand_reset_debug(self) == [Enter(self) EXCEPT !.debug = FALSE]

\* ---------------------------------------------------------------- state
\* policy : which engine the driver constructed ("none" before construction)
\* mmu    : the engine object
\* quiet  : a second object of the same class and frame count, fed the same
\*          events (and the same random draws) but never switched to debug
\* prev   : mmu as it was before the last call
\* op     : the last call, [kind, page]
\* wrote  : per page, whether a write to it occurred since it was last loaded
\*          (the access that loads it included); kept by the driver
\* recording : whether the driver keeps the list of the events it feeds
\* trace     : that list, every read and write since construction in call
\*             order, when recording
VARIABLES policy, mmu, quiet, prev, op, wrote, recording, trace, twin

vars == <<policy, mmu, quiet, prev, op, wrote, recording, trace, twin>>

\* ---------------------------------------------- one view of the 3 classes
\* the frame count fixed at construction
Capacity(pol, m) ==
    CASE pol = "clock" -> m.frames_capacity
      [] pol = "lru"   -> m.frames
      [] pol = "rand"  -> m.num_frames

\* the frame indices of the object's frame array
FrameIdx(pol, m) ==
    CASE pol = "clock" -> DOMAIN m.frame_page
      [] pol = "lru"   -> DOMAIN m.frame_table
      [] pol = "rand"  -> DOMAIN m.frames

\* the page stored in frame i: None or Some(page)
FramePage(pol, m, i) ==
    CASE pol = "clock" -> m.frame_page[i]
      [] pol = "lru"   -> m.frame_table[i]
      [] pol = "rand"  -> IF m.frames[i] = None THEN None ELSE Some(m.frames[i][1].page)

\* the dirty flag of frame i
Dirty(pol, m, i) ==
    CASE pol = "clock" -> m.dirty[i]
      [] pol = "lru"   -> m.dirty_bits[i]
      [] pol = "rand"  -> IF m.frames[i] = None THEN FALSE ELSE m.frames[i][1].dirty

\* the page -> frame mapping
Mapping(pol, m) ==
    CASE pol = "clock" -> m.page_to_frame
      [] pol = "lru"   -> m.page_table
      [] pol = "rand"  -> m.page_to_frame

\* the frames that hold a page, and the pages held by some frame
Occupied(pol, m) == {i \in FrameIdx(pol, m) : FramePage(pol, m, i) # None}
Stored(pol, m) == {FramePage(pol, m, i)[1] : i \in Occupied(pol, m)}

\* ------------------------------------------------------------- driver
\* the driver goes on feeding events while the counters are below the bounds
MoreEvents ==
    /\ mmu.page_faults < MaxFaults
    /\ policy = "lru" => mmu.current_time < MaxTime
    /\ recording => Len(trace) < MaxTrace

\* the shadow of writes since load, after the access (page, is_write)
Shadow(page, is_write) ==
    [wrote EXCEPT ![page] = IF page \in Stored(policy, mmu) THEN @ \/ is_write
                            ELSE is_write]

Init ==
    /\ policy = "none"
    /\ mmu = None
    /\ quiet = None
    /\ prev = None
    /\ op = [kind |-> "none", page |-> 0]
    /\ wrote = [p \in Pages |-> FALSE]
    /\ recording = FALSE
    /\ trace = <<>>
    /\ twin = None

\* the same start with the driver recording its events
InitReplay ==
    /\ policy = "none"
    /\ mmu = None
    /\ quiet = None
    /\ prev = None
    /\ op = [kind |-> "none", page |-> 0]
    /\ wrote = [p \in Pages |-> FALSE]
    /\ recording = TRUE
    /\ trace = <<>>
    /\ twin = None

Construct(pol, obj) ==
    /\ policy = "none"
    /\ policy' = pol
    /\ mmu' = obj
    /\ quiet' = obj
    /\ prev' = obj
    /\ op' = [kind |-> "new", page |-> 0]
    /\ UNCHANGED <<wrote, recording, trace, twin>>

ConstructClock(frames) == Construct("clock", ClockMMU(frames))
ConstructLru(frames) == Construct("lru", LruMMU(frames))
ConstructRand(frames) == Construct("rand", RandMMU(frames))

\* one read or write call on mmu, and the same call on quiet
Call(pol, kind, page, after, quietAfter) ==
    /\ policy = pol
    /\ MoreEvents
    /\ mmu' = after
    /\ quiet' = quietAfter
    /\ prev' = mmu
    /\ op' = [kind |-> kind, page |-> page]
    /\ wrote' = Shadow(page, kind = "write")
    /\ trace' = IF recording THEN Append(trace, [kind |-> kind, page |-> page])
                ELSE trace
    /\ UNCHANGED <<policy, recording, twin>>

\* set_debug / reset_debug on mmu only
Toggle(pol, kind, after) ==
    /\ policy = pol
    /\ mmu' = after
    /\ prev' = mmu
    /\ op' = [kind |-> kind, page |-> 0]
    /\ UNCHANGED <<policy, quiet, wrote, recording, trace, twin>>

ClockRead(page) ==
    Call("clock", "read", page, Clock_read_memory(mmu, page), Clock_read_memory(quiet, page))
ClockWrite(page) ==
    Call("clock", "write", page, Clock_write_memory(mmu, page), Clock_write_memory(quiet, page))
ClockSetDebug == Toggle("clock", "set_debug", Clock_set_debug(mmu))
ClockResetDebug == Toggle("clock", "reset_debug", Clock_reset_debug(mmu))

LruRead(page) ==
    Call("lru", "read", page, Lru_read_memory(mmu, page), Lru_read_memory(quiet, page))
LruWrite(page) ==
    Call("lru", "write", page, Lru_write_memory(mmu, page), Lru_write_memory(quiet, page))
LruSetDebug == Toggle("lru", "set_debug", Lru_set_debug(mmu))
LruResetDebug == Toggle("lru", "reset_debug", Lru_reset_debug(mmu))

\* the draws the random generator can deliver to this call
Draws == IF policy = "rand" /\ Rand_draws(mmu) # {} THEN Rand_draws(mmu) ELSE {0}

RandRead(page) ==
    \E draw \in Draws :
        Call("rand", "read", page, Rand_read_memory(mmu, page, draw),
             Rand_read_memory(quiet, page, draw))
RandWrite(page) ==
    \E draw \in Draws :
        Call("rand", "write", page, Rand_write_memory(mmu, page, draw),
             Rand_write_memory(quiet, page, draw))
RandSetDebug == Toggle("rand", "set_debug", Rand_set_debug(mmu))
RandResetDebug == Toggle("rand", "reset_debug", Rand_reset_debug(mmu))

Next ==
    \/ \E frames \in Capacities : ConstructClock(frames)
    \/ \E frames \in Capacities : ConstructLru(frames)
    \/ \E frames \in Capacities : ConstructRand(frames)
    \/ \E page \in Pages : ClockRead(page)
    \/ \E page \in Pages : ClockWrite(page)
    \/ ClockSetDebug
    \/ ClockResetDebug
    \/ \E page \in Pages : LruRead(page)
    \/ \E page \in Pages : LruWrite(page)
    \/ LruSetDebug
    \/ LruResetDebug
    \/ \E page \in Pages : RandRead(page)
    \/ \E page \in Pages : RandWrite(page)
    \/ RandSetDebug
    \/ RandResetDebug

Spec == Init /\ [][Next]_vars

\* a recorded run: an engine is constructed and fed reads and writes, debug off
NextReplay ==
    \/ \E frames \in Capacities : ConstructClock(frames)
    \/ \E frames \in Capacities : ConstructLru(frames)
    \/ \E frames \in Capacities : ConstructRand(frames)
    \/ \E page \in Pages : ClockRead(page)
    \/ \E page \in Pages : ClockWrite(page)
    \/ \E page \in Pages : LruRead(page)
    \/ \E page \in Pages : LruWrite(page)
    \/ \E page \in Pages : RandRead(page)
    \/ \E page \in Pages : RandWrite(page)

SpecReplay == InitReplay /\ [][NextReplay]_vars

\* ------------------------------------------------ two engines, one trace
\* the driver feeds the same recorded events to mmu and to a second engine,
\* twin: a Random engine of the same capacity with its own random draws, or an
\* LRU engine with one frame more
PairPages == IF policy = "lru" THEN 1..(MaxFrames + 2) ELSE Pages
\* the pages the paired run writes to (the others are only read)
PairWritePages == IF policy = "lru" THEN {1} ELSE Pages
\* the paired LRU run is one event longer than the other recorded runs
PairMore == Len(trace) < (IF policy = "lru" THEN MaxTrace + 1 ELSE MaxTrace)
\* the draws the random generator can deliver to an access of m
DrawsOf(m) == IF Rand_draws(m) # {} THEN Rand_draws(m) ELSE {0}

PairConstruct(pol, obj, other) ==
    /\ policy = "none"
    /\ policy' = pol
    /\ mmu' = obj
    /\ quiet' = obj
    /\ prev' = obj
    /\ twin' = other
    /\ op' = [kind |-> "new", page |-> 0]
    /\ UNCHANGED <<wrote, recording, trace>>

PairConstructRand(frames) == PairConstruct("rand", RandMMU(frames), RandMMU(frames))
PairConstructLru(frames) == PairConstruct("lru", LruMMU(frames), LruMMU(frames + 1))

\* one read or write call on mmu, and the same call on twin
PairCall(pol, kind, page, after, twinAfter) ==
    /\ policy = pol
    /\ PairMore
    /\ page \in PairPages
    /\ kind = "write" => page \in PairWritePages
    /\ mmu' = after
    /\ twin' = twinAfter
    /\ prev' = mmu
    /\ op' = [kind |-> kind, page |-> page]
    /\ trace' = Append(trace, [kind |-> kind, page |-> page])
    /\ UNCHANGED <<policy, quiet, wrote, recording>>

PairRandRead(page) ==
    /\ policy = "rand"
    /\ \E d1 \in DrawsOf(mmu), d2 \in DrawsOf(twin) :
          PairCall("rand", "read", page, Rand_read_memory(mmu, page, d1),
                   Rand_read_memory(twin, page, d2))
PairRandWrite(page) ==
    /\ policy = "rand"
    /\ \E d1 \in DrawsOf(mmu), d2 \in DrawsOf(twin) :
          PairCall("rand", "write", page, Rand_write_memory(mmu, page, d1),
                   Rand_write_memory(twin, page, d2))
PairLruRead(page) ==
    PairCall("lru", "read", page, Lru_read_memory(mmu, page), Lru_read_memory(twin, page))
PairLruWrite(page) ==
    PairCall("lru", "write", page, Lru_write_memory(mmu, page), Lru_write_memory(twin, page))

NextPair ==
    \/ \E frames \in 1..MaxFrames : PairConstructRand(frames)
    \/ \E frames \in 1..MaxFrames : PairConstructLru(frames)
    \/ \E page \in 1..(MaxFrames + 2) : PairRandRead(page)
    \/ \E page \in 1..(MaxFrames + 2) : PairRandWrite(page)
    \/ \E page \in 1..(MaxFrames + 2) : PairLruRead(page)
    \/ \E page \in 1..(MaxFrames + 2) : PairLruWrite(page)

SpecPair == InitReplay /\ [][NextPair]_vars

\* =============================================================== claims
\* an engine has been constructed
Built == policy # "none"
\* ... with at least one frame
Valid == Built /\ Capacity(policy, mmu) >= 1
\* the last call was a read or a write
IsAccess == op.kind \in {"read", "write"}
\* the last call was a read or write of a page not resident before it
IsFault == IsAccess /\ op.page \notin DOMAIN Mapping(policy, prev)
\* the last call was a read or write of a page resident before it
IsHit == IsAccess /\ op.page \in DOMAIN Mapping(policy, prev)
\* the frames whose page the last call removed from memory
Evicted == {i \in Occupied(policy, prev) :
                FramePage(policy, prev, i)[1] \notin Stored(policy, mmu)}
\* the frames holding page p
FramesOf(pol, m, p) == {i \in Occupied(pol, m) : FramePage(pol, m, i) = Some(p)}

\* C1: for every engine built with capacity >= 1, after every read or write
\* disk_reads equals page_faults.
C1_ReadsEqualFaults == Valid => mmu.disk_reads = mmu.page_faults

\* C1 witness: a Random engine whose last call was a fault that evicted
C1_Witness ==
    /\ Valid /\ policy = "rand" /\ IsFault /\ Evicted # {}
    /\ mmu.page_faults >= 3 /\ mmu.disk_reads = mmu.page_faults

\* C2: the page -> frame mapping and the frame array are a bijection after every
\* call: an occupied frame's page maps to that frame, a mapped page is the page
\* stored in the frame it maps to, and no page is stored in two frames.
C2_Bijection ==
    Valid =>
        /\ \A i \in Occupied(policy, mmu) :
              /\ FramePage(policy, mmu, i)[1] \in DOMAIN Mapping(policy, mmu)
              /\ Mapping(policy, mmu)[FramePage(policy, mmu, i)[1]] = i
        /\ \A p \in DOMAIN Mapping(policy, mmu) :
              /\ Mapping(policy, mmu)[p] \in FrameIdx(policy, mmu)
              /\ FramePage(policy, mmu, Mapping(policy, mmu)[p]) = Some(p)
        /\ \A i, j \in Occupied(policy, mmu) :
              FramePage(policy, mmu, i) = FramePage(policy, mmu, j) => i = j

\* C2 witness: a Clock engine with two occupied frames right after an eviction
C2_Witness ==
    /\ Valid /\ policy = "clock" /\ IsFault /\ Evicted # {}
    /\ Cardinality(Occupied(policy, mmu)) = 2
    /\ Cardinality(DOMAIN Mapping(policy, mmu)) = 2

\* C3: the number of resident pages, and of occupied frames, never exceeds the
\* capacity fixed at construction.
C3_WithinCapacity ==
    Valid =>
        /\ Cardinality(DOMAIN Mapping(policy, mmu)) <= Capacity(policy, mmu)
        /\ Cardinality(Stored(policy, mmu)) <= Capacity(policy, mmu)
        /\ Cardinality(Occupied(policy, mmu)) <= Capacity(policy, mmu)

\* C3 witness: a full Random engine of capacity 2 after its second eviction
C3_Witness ==
    /\ Valid /\ policy = "rand" /\ Capacity(policy, mmu) = 2
    /\ mmu.page_faults = 4 /\ IsFault /\ Evicted # {}
    /\ Cardinality(DOMAIN Mapping(policy, mmu)) = 2

\* C4: disk_writes grows by exactly 1 in a call that evicts a frame whose dirty
\* flag was true before the call, and is unchanged by every other call (a hit,
\* an install into a free frame, the eviction of a clean frame, a debug toggle).
C4_WritesOnlyOnDirtyEviction ==
    (Valid /\ op.kind # "new") =>
        /\ Cardinality(Evicted) <= 1
        /\ Evicted # {} => IsFault
        /\ (\E i \in Evicted : Dirty(policy, prev, i))
              => mmu.disk_writes = prev.disk_writes + 1
        /\ ~(\E i \in Evicted : Dirty(policy, prev, i))
              => mmu.disk_writes = prev.disk_writes

\* C4 witness: an LRU fault evicted a dirty frame while the other frame was
\* clean, and disk_writes grew by 1
C4_Witness ==
    /\ Valid /\ policy = "lru" /\ IsFault
    /\ \E i \in Evicted : Dirty(policy, prev, i)
    /\ \E j \in Occupied(policy, prev) : ~Dirty(policy, prev, j)
    /\ mmu.disk_writes = prev.disk_writes + 1

\* C5: a read of a resident page leaves page_faults, disk_reads, disk_writes,
\* the resident set and every frame's dirty flag unchanged.
C5_ReadHitChangesNothing ==
    (Valid /\ IsHit /\ op.kind = "read") =>
        /\ mmu.page_faults = prev.page_faults
        /\ mmu.disk_reads = prev.disk_reads
        /\ mmu.disk_writes = prev.disk_writes
        /\ Mapping(policy, mmu) = Mapping(policy, prev)
        /\ \A i \in FrameIdx(policy, mmu) :
              /\ FramePage(policy, mmu, i) = FramePage(policy, prev, i)
              /\ Dirty(policy, mmu, i) = Dirty(policy, prev, i)

\* C5 witness: a Random engine read a resident page whose frame is dirty
C5_Witness ==
    /\ Valid /\ policy = "rand" /\ IsHit /\ op.kind = "read"
    /\ \E i \in FramesOf(policy, mmu, op.page) : Dirty(policy, mmu, i)
    /\ mmu.page_faults >= 2

\* C6: an access to a non-resident page p adds exactly 1 to page_faults and to
\* disk_reads and ends with p mapped and stored in exactly one frame, whose
\* dirty flag is true for a write and false for a read.
C6_FaultInstalls ==
    (Valid /\ IsFault) =>
        /\ mmu.page_faults = prev.page_faults + 1
        /\ mmu.disk_reads = prev.disk_reads + 1
        /\ op.page \in DOMAIN Mapping(policy, mmu)
        /\ Cardinality(FramesOf(policy, mmu, op.page)) = 1
        /\ \A i \in FramesOf(policy, mmu, op.page) :
              /\ Mapping(policy, mmu)[op.page] = i
              /\ Dirty(policy, mmu, i) = (op.kind = "write")

\* C6 witness: an LRU read fault took over a frame whose occupant was dirty, and
\* the frame is clean afterwards
C6_Witness ==
    /\ Valid /\ policy = "lru" /\ IsFault /\ op.kind = "read"
    /\ \E i \in Evicted :
          /\ Dirty(policy, prev, i)
          /\ FramePage(policy, mmu, i) = Some(op.page)
          /\ ~Dirty(policy, mmu, i)

\* C7: after every call an occupied frame is dirty exactly if a write to its
\* page occurred since the page was last loaded (the loading access included).
C7_DirtyIffWritten ==
    Valid =>
        \A i \in Occupied(policy, mmu) :
            Dirty(policy, mmu, i) = wrote[FramePage(policy, mmu, i)[1]]

\* C7 witness: a Clock engine that has evicted reads a resident page written
\* since its load; the frame stays dirty while another frame is clean
C7_Witness ==
    /\ Valid /\ policy = "clock" /\ IsHit /\ op.kind = "read"
    /\ wrote[op.page]
    /\ \E i \in FramesOf(policy, mmu, op.page) : Dirty(policy, mmu, i)
    /\ \E j \in Occupied(policy, mmu) : ~Dirty(policy, mmu, j)
    /\ mmu.page_faults >= 3

\* C8: constructing an engine with capacity <= 0 is rejected, so no engine
\* object with zero or negative capacity exists.
C8_NoEngineWithoutFrames == Built => Capacity(policy, mmu) >= 1

\* C9: with capacity >= 1 no read or write raises, the accessed page is in a
\* frame when the call returns, and a fault on a full memory evicts exactly one
\* page that was in a frame (the victim frame is never an empty one).
C9_AccessNeverFails ==
    Valid =>
        /\ mmu.exc = "none"
        /\ IsAccess => /\ op.page \in Stored(policy, mmu)
                       /\ op.page \in DOMAIN Mapping(policy, mmu)
        /\ (IsFault /\ Cardinality(Occupied(policy, prev)) = Capacity(policy, prev))
              => Cardinality(Evicted) = 1

\* C9 witness: a Clock sweep that wrapped the hand around to frame 0
C9_Witness ==
    /\ Valid /\ policy = "clock" /\ Capacity(policy, mmu) = 2
    /\ IsFault /\ Evicted # {} /\ prev.hand = 1 /\ mmu.hand = 0
    /\ mmu.exc = "none"

\* the object without its debug switch and without what the last call handed
\* back (the printed lines, the exception)
Core(m) == [m EXCEPT !.debug = FALSE, !.out = <<>>, !.exc = "none"]

\* C10: the engine run with debug switched on and off at any points and the
\* engine run on the same events with debug never on have the same counters and
\* the same frame and mapping state after every call, and every read or write
\* ends the same way (returns or raises) on both.
C10_DebugDoesNotInterfere ==
    Built => /\ Core(mmu) = Core(quiet)
             /\ IsAccess => mmu.exc = quiet.exc

\* C10 witness: a Clock engine in debug mode printed an eviction while its twin
\* printed nothing
C10_Witness ==
    /\ Valid /\ policy = "clock" /\ IsFault /\ Evicted # {}
    /\ mmu.debug /\ Len(mmu.out) = 3 /\ quiet.out = <<>>
    /\ mmu.disk_writes = 1

\* the frames that were free before the last call
FreeBefore == FrameIdx(policy, prev) \ Occupied(policy, prev)
\* the page the last call evicted from frame v
VictimPage(v) == FramePage(policy, prev, v)[1]

\* the access line of section 6 for the last call
AccessLine == <<AccessWord(op.kind = "write"), op.page>>
\* the eviction line of section 6 for the last call: none, or one for the victim
EvictionLines ==
    IF Evicted = {} THEN <<>>
    ELSE LET v == CHOOSE i \in Evicted : TRUE
         IN  << <<IF Dirty(policy, prev, v) THEN "Disk write" ELSE "Discard",
                  VictimPage(v)>> >>
\* the lines section 6 prescribes for the last call
ExpectedOut ==
    IF ~prev.debug THEN <<>>
    ELSE IF IsHit THEN <<AccessLine>>
    ELSE << <<"Page fault", op.page>> >> \o EvictionLines \o <<AccessLine>>

\* C11: with debug enabled every engine prints, per access and in order, the
\* access line for a hit and "Page fault", the victim's "Disk write" or
\* "Discard" line if a victim is evicted, then the access line for a fault;
\* with debug disabled it prints nothing.
C11_DebugTrace == (Valid /\ IsAccess) => mmu.out = ExpectedOut

\* the events read(1), read(2), read(3)
Read123 == << [kind |-> "read", page |-> 1], [kind |-> "read", page |-> 2],
              [kind |-> "read", page |-> 3] >>

\* C12: a Clock engine of capacity 2 fed read(1), read(2), read(3) ends with 3
\* page faults, 3 disk reads, no disk write, page 1 evicted, pages 2 and 3
\* resident.
C12_ClockScenario ==
    (policy = "clock" /\ Capacity(policy, mmu) = 2 /\ trace = Read123) =>
        /\ mmu.page_faults = 3
        /\ mmu.disk_reads = 3
        /\ mmu.disk_writes = 0
        /\ 1 \notin DOMAIN Mapping(policy, mmu)
        /\ Stored(policy, mmu) = {2, 3}
        /\ DOMAIN Mapping(policy, mmu) = {2, 3}

\* C12 witness: the end of that run, page 1 gone from frame 0
C12_Witness ==
    /\ policy = "clock" /\ Capacity(policy, mmu) = 2 /\ trace = Read123
    /\ Evicted = {0} /\ VictimPage(0) = 1
    /\ mmu.page_faults = 3

\* C13: a fault while a frame is free installs the page in the lowest free
\* frame and evicts nothing (resident pages stay, disk_writes unchanged, the
\* Clock hand does not sweep); a page is evicted only when no frame was free.
C13_FreeFrameFirst ==
    (Valid /\ IsFault) =>
        /\ FreeBefore # {} =>
              /\ Evicted = {}
              /\ \E f \in FreeBefore :
                    /\ \A g \in FreeBefore : f <= g
                    /\ FramesOf(policy, mmu, op.page) = {f}
              /\ Stored(policy, mmu) = Stored(policy, prev) \cup {op.page}
              /\ mmu.disk_writes = prev.disk_writes
              /\ policy = "clock" => mmu.sweep = <<>> /\ mmu.hand = prev.hand
        /\ Evicted # {} => FreeBefore = {}
        /\ (policy = "clock" /\ mmu.sweep # <<>>) => FreeBefore = {}

\* C13 witness: a Random engine of capacity 2 with frame 0 taken installs a
\* written page into frame 1
C13_Witness ==
    /\ Valid /\ policy = "rand" /\ IsFault /\ op.kind = "write"
    /\ FreeBefore = {1}
    /\ FramesOf(policy, mmu, op.page) = {1}
    /\ Cardinality(Stored(policy, mmu)) = 2

\* the inspections of frame f in the last sweep
Inspections(f) == {k \in 1..Len(mmu.sweep) : mmu.sweep[k].frame = f}

\* C14: in a Clock eviction sweep a frame found with ref 1 is not evicted on
\* that inspection: its ref is cleared and the hand moves to the next frame; it
\* is evicted only on a later inspection that finds ref 0.  The victim has
\* ref 0 when evicted.
C14_SecondChance ==
    (Valid /\ policy = "clock" /\ IsFault /\ Evicted # {}) =>
        LET log == mmu.sweep
            n   == Len(mmu.sweep)
        IN  /\ n >= 1
            /\ log[1].frame = prev.hand
            /\ log[n].ref = 0
            /\ log[n].frame \in Evicted
            /\ \A k \in 1..n :
                  /\ (\A j \in 1..(k - 1) : log[j].frame # log[k].frame)
                        => log[k].ref = prev.ref[log[k].frame]
                  /\ log[k].ref = 1 =>
                        /\ k < n
                        /\ log[k + 1].frame =
                               (log[k].frame + 1) % Capacity(policy, mmu)
                        /\ log[k].frame \notin Evicted => mmu.ref[log[k].frame] = 0
                        /\ log[k].frame \in Evicted =>
                              \E j \in (k + 1)..n : /\ log[j].frame = log[k].frame
                                                    /\ log[j].ref = 0

\* C14 witness: with both frames referenced the hand clears frame 0 and frame 1
\* and comes back to evict frame 0
C14_Witness ==
    /\ Valid /\ policy = "clock" /\ IsFault /\ Evicted = {0}
    /\ Len(mmu.sweep) = 3
    /\ mmu.sweep[1].frame = 0 /\ mmu.sweep[1].ref = 1
    /\ mmu.sweep[2].frame = 1 /\ mmu.sweep[2].ref = 1
    /\ mmu.sweep[3].frame = 0 /\ mmu.sweep[3].ref = 0
    /\ mmu.ref[1] = 0

\* C15: every Clock eviction sweep ends with a victim after at most
\* 2 x capacity inspections, none of the frames being inspected more than twice.
C15_SweepBounded ==
    (Valid /\ policy = "clock" /\ IsFault /\ FreeBefore = {}) =>
        /\ mmu.exc = "none"
        /\ Cardinality(Evicted) = 1
        /\ Len(mmu.sweep) >= 1
        /\ Len(mmu.sweep) <= 2 * Capacity(policy, mmu)
        /\ \A f \in FrameIdx(policy, mmu) : Cardinality(Inspections(f)) <= 2

\* C15 witness: capacity 1, a referenced dirty page: the one frame is inspected
\* twice, which is 2 x capacity
C15_Witness ==
    /\ Valid /\ policy = "clock" /\ Capacity(policy, mmu) = 1
    /\ IsFault /\ Evicted = {0} /\ Dirty(policy, prev, 0)
    /\ Len(mmu.sweep) = 2 /\ Inspections(0) = {1, 2}

\* C16: the Clock hand stays in 0..capacity-1; a sweep that evicts frame v
\* leaves it on (v + 1) mod capacity; every other call leaves it where it was.
C16_HandAfterVictim ==
    (Valid /\ policy = "clock") =>
        /\ mmu.hand \in 0..(Capacity(policy, mmu) - 1)
        /\ op.kind # "new" =>
              IF IsFault /\ Evicted # {}
              THEN \A v \in Evicted : mmu.hand = (v + 1) % Capacity(policy, mmu)
              ELSE mmu.hand = prev.hand

\* C16 witness: capacity 2, the hand on frame 1 evicts it at the first
\* inspection and wraps to frame 0, after an earlier hit left it on frame 1
C16_Witness ==
    /\ Valid /\ policy = "clock" /\ Capacity(policy, mmu) = 2
    /\ IsFault /\ Evicted = {1} /\ Len(mmu.sweep) = 1
    /\ prev.hand = 1 /\ mmu.hand = 0
    /\ prev.ref[0] = 1

\* C17: a fault that evicts removes exactly the victim's page from the mapping,
\* puts the new page in the victim's frame and leaves page and dirty flag of
\* every other frame as they were; the frame's dirty flag is that of the new
\* access and its policy metadata is fresh (ref 1, current time stamp).
C17_EvictionFrameEffect ==
    (Valid /\ IsFault /\ Evicted # {}) =>
        \E v \in Evicted :
            /\ Evicted = {v}
            /\ DOMAIN Mapping(policy, mmu) =
                   (DOMAIN Mapping(policy, prev) \ {VictimPage(v)}) \cup {op.page}
            /\ VictimPage(v) # op.page
            /\ FramePage(policy, mmu, v) = Some(op.page)
            /\ Dirty(policy, mmu, v) = (op.kind = "write")
            /\ \A i \in FrameIdx(policy, mmu) \ {v} :
                  /\ FramePage(policy, mmu, i) = FramePage(policy, prev, i)
                  /\ Dirty(policy, mmu, i) = Dirty(policy, prev, i)
            /\ policy = "clock" => mmu.ref[v] = 1
            /\ policy = "lru" => /\ mmu.access_time[v] = mmu.current_time
                                 /\ mmu.access_time[v] > prev.access_time[v]

\* C17 witness: a Random engine of capacity 2 reads a new page over a dirty
\* victim while the other frame stays dirty
C17_Witness ==
    /\ Valid /\ policy = "rand" /\ Capacity(policy, mmu) = 2
    /\ IsFault /\ op.kind = "read"
    /\ \E v \in Evicted : /\ Dirty(policy, prev, v) /\ ~Dirty(policy, mmu, v)
                          /\ \E i \in FrameIdx(policy, mmu) \ {v} :
                                Dirty(policy, mmu, i)

\* the position in the recorded run of the last access to page p before the
\* last call (0 if there is none)
LastAccess(p) ==
    LET ks == {k \in 1..(Len(trace) - 1) : trace[k].page = p}
    IN  IF ks = {} THEN 0 ELSE CHOOSE k \in ks : \A j \in ks : j <= k

\* the events read(1), read(2), read(1), read(3)
Read1213 == << [kind |-> "read", page |-> 1], [kind |-> "read", page |-> 2],
               [kind |-> "read", page |-> 1], [kind |-> "read", page |-> 3] >>

\* C18: at every LRU eviction the victim's stamp is the least stamp of the
\* occupied frames, and the evicted page is the resident page whose last access
\* in the run is the earliest; capacity 2 fed read(1), read(2), read(1), read(3)
\* evicts page 2 and has 3 page faults.
C18_LruVictim ==
    /\ (Valid /\ policy = "lru" /\ IsFault /\ Evicted # {}) =>
          \A v \in Evicted : \A j \in Occupied(policy, prev) \ {v} :
              /\ prev.access_time[v] < prev.access_time[j]
              /\ LastAccess(VictimPage(v)) >= 1
              /\ LastAccess(VictimPage(v)) < LastAccess(VictimPage(j))
    /\ (policy = "lru" /\ Capacity(policy, mmu) = 2 /\ trace = Read1213) =>
          /\ {VictimPage(v) : v \in Evicted} = {2}
          /\ mmu.page_faults = 3
          /\ Stored(policy, mmu) = {1, 3}

\* C18 witness: the end of the run read(1), read(2), read(1), read(3)
C18_Witness ==
    /\ policy = "lru" /\ Capacity(policy, mmu) = 2 /\ trace = Read1213
    /\ Evicted = {1} /\ VictimPage(1) = 2
    /\ prev.access_time[1] < prev.access_time[0]

\* C19: the LRU logical clock starts at 0 and grows by exactly 1 per access,
\* hit or fault, so after n accesses it equals n.
C19_ClockTicksOncePerAccess ==
    (Valid /\ policy = "lru") => mmu.current_time = Len(trace)

\* C20: whenever the Random engine selects a victim, the call returns, the
\* victim is an occupied frame in 0..capacity-1 and exactly its page leaves
\* memory; with capacity 1 the victim is frame 0, so an access to another page
\* than the resident one evicts the resident page.
C20_RandomVictim ==
    (Valid /\ policy = "rand" /\ IsFault /\ Len(prev.free) = 0) =>
        /\ mmu.exc = "none"
        /\ \E v \in 0..(Capacity(policy, mmu) - 1) :
              /\ v \in Occupied(policy, prev)
              /\ Evicted = {v}
              /\ FramePage(policy, mmu, v) = Some(op.page)
        /\ Capacity(policy, mmu) = 1 =>
              /\ Evicted = {0}
              /\ Stored(policy, mmu) = {op.page}

\* C20 witness: capacity 1, write(1) then read(2): the written page is evicted
\* from frame 0 with one disk write
C20_Witness ==
    /\ Valid /\ policy = "rand" /\ Capacity(policy, mmu) = 1
    /\ IsFault /\ op = [kind |-> "read", page |-> 2]
    /\ Evicted = {0} /\ VictimPage(0) = 1 /\ Dirty(policy, prev, 0)
    /\ mmu.disk_writes = 1 /\ mmu.page_faults = 2

Min2(a, b) == IF a < b THEN a ELSE b
Max2(a, b) == IF a > b THEN a ELSE b

\* C22: frames fill in index order and an occupied frame is never empty after
\* an access, so the occupied frames are the first min(page_faults, capacity)
\* ones; an access evicts (one page) exactly if it is a fault with capacity or
\* more faults before it, so there are max(0, page_faults - capacity) evictions
\* and at most that many disk writes; the Clock sweep meets no empty frame.
C22_FramesFillInOrder ==
    Valid =>
        /\ Occupied(policy, mmu) =
               0..(Min2(mmu.page_faults, Capacity(policy, mmu)) - 1)
        /\ mmu.disk_writes <= Max2(0, mmu.page_faults - Capacity(policy, mmu))
        /\ IsAccess =>
              /\ Occupied(policy, prev) \subseteq Occupied(policy, mmu)
              /\ Cardinality(Evicted) <= 1
              /\ Evicted # {} <=>
                     (IsFault /\ prev.page_faults >= Capacity(policy, mmu))
        /\ policy = "clock" =>
              \A k \in 1..Len(mmu.sweep) : mmu.sweep[k].occupied

\* C22 witness: a Clock engine of capacity 2 after 4 faults of which the last
\* two each wrote a dirty victim back: disk_writes = page_faults - capacity
C22_Witness ==
    /\ Valid /\ policy = "clock" /\ Capacity(policy, mmu) = 2
    /\ mmu.page_faults = 4 /\ mmu.disk_writes = 2
    /\ Occupied(policy, mmu) = {0, 1}
    /\ Evicted # {} /\ Len(mmu.sweep) >= 1

\* C23: in the LRU engine the stamps of occupied frames are pairwise distinct,
\* the frame of the page just accessed holds the current clock value, which is
\* greater than the stamp of every other frame, and at an eviction the victim's
\* stamp is strictly below every other occupied frame's: the tie-break by
\* lowest index never decides.
C23_StampsDistinct ==
    (Valid /\ policy = "lru") =>
        /\ \A i, j \in Occupied(policy, mmu) :
              i # j => mmu.access_time[i] # mmu.access_time[j]
        /\ IsAccess =>
              \E f \in FramesOf(policy, mmu, op.page) :
                  /\ mmu.access_time[f] = mmu.current_time
                  /\ \A j \in FrameIdx(policy, mmu) \ {f} :
                        mmu.access_time[j] < mmu.access_time[f]
        /\ (IsFault /\ Evicted # {}) =>
              \A v \in Evicted : \A j \in Occupied(policy, prev) \ {v} :
                  prev.access_time[v] < prev.access_time[j]

\* C23 witness: a write fault on a full LRU engine of capacity 2 evicts frame 1,
\* not the lowest index, and stamps it with the current clock value
C23_Witness ==
    /\ Valid /\ policy = "lru" /\ Capacity(policy, mmu) = 2
    /\ IsFault /\ op.kind = "write" /\ Evicted = {1}
    /\ prev.access_time[1] < prev.access_time[0]
    /\ mmu.access_time[1] = mmu.current_time
    /\ mmu.access_time[0] < mmu.access_time[1]

\* two engines are run side by side
Paired == twin # None
\* the aggregate counters of an engine
Counters(m) == <<m.page_faults, m.disk_reads, m.disk_writes>>
\* the pages of the recorded run, and its number of writes
DistinctPages == {trace[k].page : k \in 1..Len(trace)}
WritesInTrace == Cardinality({k \in 1..Len(trace) : trace[k].kind = "write"})

\* C21: two Random runs of the same trace at the same capacity end every prefix
\* of the trace with the same page_faults, disk_reads and disk_writes, whatever
\* victims each of them draws.
C21_CountersDeterministic ==
    (Paired /\ policy = "rand") => Counters(twin) = Counters(mmu)

\* C21 as it holds: the counters of the two runs agree while no victim has been
\* drawn (the trace has at most capacity distinct pages: page_faults =
\* disk_reads = that number, disk_writes = 0) and at capacity 1, where the
\* victim is always frame 0; in every run disk_reads = page_faults, page_faults
\* lies between the number of distinct pages and the length of the trace and
\* disk_writes is at most the number of writes.
C21_CountersUntilFirstDraw ==
    (Paired /\ policy = "rand") =>
        /\ (Cardinality(DistinctPages) <= Capacity(policy, mmu)
               \/ Capacity(policy, mmu) = 1) =>
              /\ Counters(twin) = Counters(mmu)
              /\ Stored(policy, twin) = Stored(policy, mmu)
        /\ Cardinality(DistinctPages) <= Capacity(policy, mmu) =>
              /\ mmu.page_faults = Cardinality(DistinctPages)
              /\ mmu.disk_writes = 0
        /\ \A m \in {mmu, twin} :
              /\ m.disk_reads = m.page_faults
              /\ Cardinality(DistinctPages) <= m.page_faults
              /\ m.page_faults <= Len(trace)
              /\ m.disk_writes <= WritesInTrace

\* C21 witness: two Random runs at capacity 1 that have each evicted two
\* written pages and count the same
C21_Witness ==
    /\ Paired /\ policy = "rand" /\ Capacity(policy, mmu) = 1
    /\ mmu.page_faults = 3 /\ mmu.disk_writes = 2
    /\ Counters(twin) = Counters(mmu)
    /\ IsFault /\ Evicted = {0}

\* C24: with the same trace fed to an LRU engine of capacity n and to one of
\* capacity n + 1, after every access the pages resident in the smaller engine
\* are resident in the larger one, and the larger one has no more page faults.
C24_LruInclusion ==
    (Paired /\ policy = "lru") =>
        /\ Capacity(policy, twin) = Capacity(policy, mmu) + 1
        /\ Stored(policy, mmu) \subseteq Stored(policy, twin)
        /\ twin.page_faults <= mmu.page_faults

\* C24 witness: capacities 2 and 3, both engines have evicted, and the smaller
\* one has just taken a fault on a page the larger one still held
C24_Witness ==
    /\ Paired /\ policy = "lru" /\ Capacity(policy, mmu) = 2
    /\ twin.page_faults = 4 /\ mmu.page_faults = 5
    /\ Cardinality(Stored(policy, twin)) = 3
    /\ Stored(policy, mmu) \subseteq Stored(policy, twin)

====
